---- MODULE Spec2Model ----
(***************************************************************************)
(* Model of the commit/tree storage core (lib/src/backend.rs): identifier   *)
(* types, Timestamp, MergedTreeId, Tree, common_hex_len, make_root_commit;  *)
(* and of the command `jj next` (cli/src/commands/next.rs).                 *)
(*                                                                          *)
(* Byte strings (Vec<u8>, &[u8], the bytes of a name) are sequences of      *)
(* integers 0..255.  Text is a sequence of one-character strings.           *)
(* Option<T> is a sequence: <<>> is None and <<v>> is Some(v).              *)
(***************************************************************************)
EXTENDS Integers, Sequences, FiniteSets, TLC

VARIABLES
    pc,        \* position of the running call: "start", then one label per step
    lhs,       \* first input of the running call
    rhs,       \* second input of the running call
    ret,       \* what the calls made so far returned
    entries,   \* Tree.entries, the BTreeMap of the tree under mutation
    present,   \* history: the names set and not removed since
    last,      \* history: the last Tree mutation and its arguments
    repo       \* the repository view of the command: commit graph, working copy

vars == <<pc, lhs, rhs, ret, entries, present, last, repo>>

(***************************************************************************)
(* Bounds and input alphabets.                                              *)
(***************************************************************************)
\* longest identifier, in bytes, given to the identifier and hex functions
MaxIdLen == 2
\* longest tree id, in bytes, inside a MergedTreeId
MaxTreeIdLen == 1
\* most terms of a Merge<TreeId> (a Merge has an odd number of terms)
MaxMergeTerms == 3

\* most commits of the graph `jj next` starts on
MaxGraphCommits == 4
\* largest `amount` given to `jj next`
MaxAmount == 3

\* 0x00 0x12 0x1f 0x34 0xab 0xcd 0xff
ByteVals == {0, 18, 31, 52, 171, 205, 255}
\* 0x12 0xab
TreeIdByteVals == {18, 171}

RECURSIVE SeqsUpTo(_, _)
SeqsUpTo(S, n) ==
    IF n = 0 THEN {<<>>}
    ELSE LET shorter == SeqsUpTo(S, n - 1)
         IN  shorter \cup {Append(s, x) : s \in {t \in shorter : Len(t) = n - 1}, x \in S}

RECURSIVE SeqsOfLen(_, _)
SeqsOfLen(S, n) ==
    IF n = 0 THEN {<<>>}
    ELSE {Append(s, x) : s \in SeqsOfLen(S, n - 1), x \in S}

None == <<>>
Some(v) == <<v>>

(***************************************************************************)
(* RepoPathComponent: a non-empty name, ordered by its bytes.               *)
(***************************************************************************)
\* "B", "a", "aa", "ab", "b"
Names == {<<66>>, <<97>>, <<97, 97>>, <<97, 98>>, <<98>>}

RECURSIVE BytesLess(_, _)
BytesLess(x, y) ==
    IF y = <<>> THEN FALSE
    ELSE IF x = <<>> THEN TRUE
    ELSE IF Head(x) # Head(y) THEN Head(x) < Head(y)
    ELSE BytesLess(Tail(x), Tail(y))

NameLess(x, y) == BytesLess(x, y)

(***************************************************************************)
(* TreeValue                                                                *)
(***************************************************************************)
File(id, executable) == [kind |-> "File", id |-> id, executable |-> executable]
Symlink(id) == [kind |-> "Symlink", id |-> id]
TreeV(id) == [kind |-> "Tree", id |-> id]
GitSubmodule(id) == [kind |-> "GitSubmodule", id |-> id]
Conflict(id) == [kind |-> "Conflict", id |-> id]

\* the values the Tree operations are given
TreeValues == {File(<<18>>, FALSE), File(<<18>>, TRUE), TreeV(<<18>>)}

(***************************************************************************)
(* BTreeMap<RepoPathComponent, TreeValue>: the entries in key order.        *)
(***************************************************************************)
BTreeInsertAppends(m, k, v) ==
    Append(SelectSeq(m, LAMBDA e : e.name # k), [name |-> k, value |-> v])

BTreeInsert(m, k, v) ==
    SelectSeq(m, LAMBDA e : NameLess(e.name, k))
        \o <<[name |-> k, value |-> v]>>
        \o SelectSeq(m, LAMBDA e : NameLess(k, e.name))

BTreeRemove(m, k) == SelectSeq(m, LAMBDA e : e.name # k)

BTreeGetKeyValue(m, k) ==
    LET hit == SelectSeq(m, LAMBDA e : e.name = k)
    IN  IF hit = <<>> THEN None ELSE Some(hit[1])

BTreeGet(m, k) ==
    LET kv == BTreeGetKeyValue(m, k)
    IN  IF kv = None THEN None ELSE Some(kv[1].value)

BTreeContainsKey(m, k) == \E i \in 1..Len(m) : m[i].name = k

(***************************************************************************)
(* Tree                                                                     *)
(***************************************************************************)
TreeEntry(name, value) == [name |-> name, value |-> value]

Tree_default == <<>>

Tree_is_empty(t) == Len(t) = 0

Tree_names(t) == [i \in 1..Len(t) |-> t[i].name]

Tree_entries(t) == [i \in 1..Len(t) |-> TreeEntry(t[i].name, t[i].value)]

Tree_set_keeps_old(t, name, value) ==
    IF BTreeContainsKey(t, name) THEN t ELSE BTreeInsert(t, name, value)

Tree_set(t, name, value) == BTreeInsert(t, name, value)

Tree_remove(t, name) == BTreeRemove(t, name)

Tree_set_or_remove_ignores_none(t, name, value) ==
    IF value = None THEN t ELSE BTreeInsert(t, name, value[1])

Tree_set_or_remove(t, name, value) ==
    IF value = None THEN BTreeRemove(t, name)
    ELSE BTreeInsert(t, name, value[1])

Tree_entry(t, name) ==
    LET kv == BTreeGetKeyValue(t, name)
    IN  IF kv = None THEN None ELSE Some(TreeEntry(kv[1].name, kv[1].value))

Tree_value(t, name) == BTreeGet(t, name)

(***************************************************************************)
(* The Tree under mutation: any sequence of set, remove and set_or_remove   *)
(* from the default tree.                                                   *)
(***************************************************************************)
\* no repository is loaded
NoRepo == [parents |-> <<>>, wc |-> None]

NoCall == [op |-> "new", name |-> <<>>, value |-> None, was_present |-> FALSE]

InitTree ==
    /\ entries = Tree_default
    /\ present = {}
    /\ last = NoCall
    /\ repo = NoRepo
    /\ pc = "tree"
    /\ lhs = <<>>
    /\ rhs = <<>>
    /\ ret = <<>>

Set ==
    \E name \in Names, value \in TreeValues :
        /\ entries' = Tree_set(entries, name, value)
        /\ present' = present \cup {name}
        /\ last' = [op |-> "set", name |-> name, value |-> Some(value),
                    was_present |-> name \in present]
        /\ UNCHANGED <<pc, lhs, rhs, ret, repo>>

Remove ==
    \E name \in Names :
        /\ entries' = Tree_remove(entries, name)
        /\ present' = present \ {name}
        /\ last' = [op |-> "remove", name |-> name, value |-> None,
                    was_present |-> name \in present]
        /\ UNCHANGED <<pc, lhs, rhs, ret, repo>>

SetOrRemove ==
    \E name \in Names, value \in {None} \cup {Some(v) : v \in TreeValues} :
        /\ entries' = Tree_set_or_remove(entries, name, value)
        /\ present' = IF value = None THEN present \ {name} ELSE present \cup {name}
        /\ last' = [op |-> "set_or_remove", name |-> name, value |-> value,
                    was_present |-> name \in present]
        /\ UNCHANGED <<pc, lhs, rhs, ret, repo>>

NextTree == Set \/ Remove \/ SetOrRemove

SpecTree == InitTree /\ [][NextTree]_vars

(***************************************************************************)
(* Claims about Tree.                                                       *)
(***************************************************************************)
StrictlyIncreasing(names) ==
    \A i \in 1..Len(names) : \A j \in 1..Len(names) :
        i < j => NameLess(names[i], names[j])

\* C4: after any sequence of set, remove and set_or_remove from the default
\* tree, entries() and names() yield each present name exactly once, in
\* strictly increasing name order (so the order of insertion does not show).
C4_EntriesSorted ==
    LET ns == Tree_names(entries)
        es == Tree_entries(entries)
    IN  /\ Len(es) = Len(ns)
        /\ \A i \in 1..Len(es) : es[i].name = ns[i]
        /\ StrictlyIncreasing(ns)
        /\ {ns[i] : i \in 1..Len(ns)} = present
        /\ Len(ns) = Cardinality(present)

\* a smaller name was set after a larger one, and a name was set between two others
C4_Witness ==
    /\ Len(entries) >= 3
    /\ last.op = "set"
    /\ ~last.was_present
    /\ NameLess(last.name, entries[Len(entries)].name)
    /\ NameLess(entries[1].name, last.name)

\* C5: right after set(n, v), value(n) is v and n appears once; right after
\* remove(n), value(n) and entry(n) are none, whether or not n was present.
C5_SetThenValue ==
    /\ last.op = "set" =>
        /\ Tree_value(entries, last.name) = last.value
        /\ Tree_entry(entries, last.name) = Some(TreeEntry(last.name, last.value[1]))
        /\ Cardinality({i \in 1..Len(entries) : entries[i].name = last.name}) = 1
    /\ last.op = "remove" =>
        /\ Tree_value(entries, last.name) = None
        /\ Tree_entry(entries, last.name) = None

\* set(n, v) overwrote another value of n
C5_Witness ==
    /\ last.op = "set"
    /\ last.was_present
    /\ Len(entries) >= 2
    /\ Tree_value(entries, last.name) = Some(File(<<18>>, TRUE))

\* remove(n) of a name that was absent
C5_WitnessRemoveAbsent ==
    /\ last.op = "remove"
    /\ ~last.was_present
    /\ Len(entries) >= 1

\* C6: set_or_remove(n, None) leaves the tree as remove(n) does, and
\* set_or_remove(n, Some(v)) leaves it as set(n, v) does, from every tree.
C6_SetOrRemoveEquiv ==
    [][last'.op = "set_or_remove" =>
         /\ last'.value = None =>
              /\ entries' = Tree_remove(entries, last'.name)
              /\ Tree_value(entries', last'.name) = None
         /\ last'.value # None =>
              /\ entries' = Tree_set(entries, last'.name, last'.value[1])
              /\ Tree_value(entries', last'.name) = last'.value]_vars

\* set_or_remove(n, None) removed a name that was present
C6_Witness ==
    /\ last.op = "set_or_remove"
    /\ last.value = None
    /\ last.was_present
    /\ Len(entries) >= 1

(***************************************************************************)
(* Hexadecimal text (the hex crate, as ObjectId::hex and ObjectId::from_hex *)
(* use it).                                                                 *)
(***************************************************************************)
HexCharsLower ==
    <<"0", "1", "2", "3", "4", "5", "6", "7", "8", "9", "a", "b", "c", "d", "e", "f">>

HexCharsUpper ==
    <<"0", "1", "2", "3", "4", "5", "6", "7", "8", "9", "A", "B", "C", "D", "E", "F">>

RECURSIVE HexEncodeWith(_, _)
HexEncodeWith(table, bytes) ==
    IF bytes = <<>> THEN <<>>
    ELSE <<table[(Head(bytes) \div 16) + 1], table[(Head(bytes) % 16) + 1]>>
             \o HexEncodeWith(table, Tail(bytes))

\* hex::encode: two lowercase digits for each byte, high nibble first
HexEncode(bytes) == HexEncodeWith(HexCharsLower, bytes)

\* the value of one hex digit, of either case; -1 for any other character
HexVal(c) ==
    IF \E i \in 1..16 : HexCharsLower[i] = c
    THEN (CHOOSE i \in 1..16 : HexCharsLower[i] = c) - 1
    ELSE IF \E i \in 1..16 : HexCharsUpper[i] = c
    THEN (CHOOSE i \in 1..16 : HexCharsUpper[i] = c) - 1
    ELSE -1

RECURSIVE HexDecodePairs(_)
HexDecodePairs(text) ==
    IF text = <<>> THEN Some(<<>>)
    ELSE LET hi == HexVal(text[1])
             lo == HexVal(text[2])
             rest == HexDecodePairs(Tail(Tail(text)))
         IN  IF hi < 0 \/ lo < 0 \/ rest = None THEN None
             ELSE Some(<<hi * 16 + lo>> \o rest[1])

\* hex::decode: None stands for Err (odd length, or a character that is no digit)
HexDecode(text) ==
    IF Len(text) % 2 # 0 THEN None ELSE HexDecodePairs(text)

(***************************************************************************)
(* Identifier types (impl_id_type!): a newtype over Vec<u8>.                *)
(***************************************************************************)
IdKinds == {"CommitId", "ChangeId", "TreeId", "FileId", "SymlinkId", "ConflictId"}

Ids == SeqsUpTo(ByteVals, MaxIdLen)

Id_new(value) == value

Id_from_bytes(bytes) == bytes

Id_as_bytes(id) == id

Id_to_bytes(id) == id

\* unwrap() of an Err panics: None stands for the panic
Id_from_hex(text) == HexDecode(text)

Id_hex_uppercase(id) == HexEncodeWith(HexCharsUpper, id)

Id_hex(id) == HexEncode(id)

NoIdRet ==
    [id |-> None, as_bytes |-> None, to_bytes |-> None, text |-> None, parsed |-> None]

InitId ==
    /\ pc = "start"
    /\ lhs \in Ids
    /\ rhs \in IdKinds
    /\ ret = NoIdRet
    /\ entries = Tree_default
    /\ present = {}
    /\ last = NoCall
    /\ repo = NoRepo

IdFromBytes ==
    /\ pc = "start"
    /\ ret' = [ret EXCEPT !.id = Some(Id_from_bytes(lhs))]
    /\ pc' = "constructed"
    /\ UNCHANGED <<lhs, rhs, entries, present, last, repo>>

IdNew ==
    /\ pc = "start"
    /\ ret' = [ret EXCEPT !.id = Some(Id_new(lhs))]
    /\ pc' = "constructed"
    /\ UNCHANGED <<lhs, rhs, entries, present, last, repo>>

IdAsBytes ==
    /\ pc = "constructed"
    /\ ret.as_bytes = None
    /\ ret' = [ret EXCEPT !.as_bytes = Some(Id_as_bytes(ret.id[1]))]
    /\ UNCHANGED <<pc, lhs, rhs, entries, present, last, repo>>

IdToBytes ==
    /\ pc = "constructed"
    /\ ret.to_bytes = None
    /\ ret' = [ret EXCEPT !.to_bytes = Some(Id_to_bytes(ret.id[1]))]
    /\ UNCHANGED <<pc, lhs, rhs, entries, present, last, repo>>

IdHex ==
    /\ pc = "constructed"
    /\ ret' = [ret EXCEPT !.text = Some(Id_hex(ret.id[1]))]
    /\ pc' = "encoded"
    /\ UNCHANGED <<lhs, rhs, entries, present, last, repo>>

IdFromHex ==
    /\ pc = "encoded"
    /\ LET parsed == Id_from_hex(ret.text[1])
       IN  IF parsed = None
           THEN /\ pc' = "panicked"
                /\ ret' = ret
           ELSE /\ pc' = "decoded"
                /\ ret' = [ret EXCEPT !.parsed = parsed]
    /\ UNCHANGED <<lhs, rhs, entries, present, last, repo>>

NextId == IdFromBytes \/ IdNew \/ IdAsBytes \/ IdToBytes \/ IdHex \/ IdFromHex

SpecId == InitId /\ [][NextId]_vars

\* C9: for every identifier kind and byte sequence b, the empty one included,
\* from_hex(hex(from_bytes(b))) has the bytes b, hex(from_bytes(b)) is
\* lowercase hexadecimal text of length 2 * len(b), and as_bytes() and
\* to_bytes() return b.
C9_HexRoundTrip ==
    /\ pc # "panicked"
    /\ ret.id # None => ret.id[1] = lhs
    /\ ret.as_bytes # None => ret.as_bytes[1] = lhs
    /\ ret.to_bytes # None => ret.to_bytes[1] = lhs
    /\ ret.text # None =>
        /\ Len(ret.text[1]) = 2 * Len(lhs)
        /\ \A i \in 1..Len(ret.text[1]) :
               ret.text[1][i] \in {HexCharsLower[k] : k \in 1..16}
    /\ pc = "decoded" => ret.parsed # None /\ ret.parsed[1] = lhs

\* the round trip of ab ff, whose digits are letters
C9_Witness ==
    /\ pc = "decoded"
    /\ lhs = <<171, 255>>
    /\ ret.text = Some(<<"a", "b", "f", "f">>)
    /\ ret.as_bytes # None
    /\ ret.to_bytes # None

\* the round trip of the empty identifier
C9_WitnessEmpty ==
    /\ pc = "decoded"
    /\ lhs = <<>>
    /\ ret.text = Some(<<>>)

(***************************************************************************)
(* common_hex_len                                                           *)
(***************************************************************************)
Min(x, y) == IF x < y THEN x ELSE y

HalfByteLowFirst(bytes, i) ==
    LET v == bytes[(i \div 2) + 1]
    IN  IF i % 2 = 0 THEN v % 16 ELSE v \div 16

\* the closure of iter_half_bytes: i & 1 == 0 takes v >> 4, else v & 0xf
HalfByte(bytes, i) ==
    LET v == bytes[(i \div 2) + 1]
    IN  IF i % 2 = 0 THEN v \div 16 ELSE v % 16

iter_half_bytes(bytes) == [j \in 1..(Len(bytes) * 2) |-> HalfByte(bytes, j - 1)]

Zip(s, t) == [i \in 1..Min(Len(s), Len(t)) |-> <<s[i], t[i]>>]

RECURSIVE TakeWhileEqual(_)
TakeWhileEqual(pairs) ==
    IF pairs = <<>> THEN <<>>
    ELSE IF Head(pairs)[1] = Head(pairs)[2]
    THEN <<Head(pairs)>> \o TakeWhileEqual(Tail(pairs))
    ELSE <<>>

common_hex_len(bytes_a, bytes_b) ==
    Len(TakeWhileEqual(Zip(iter_half_bytes(bytes_a), iter_half_bytes(bytes_b))))

\* 12 34 ab cd and 12 34 ff 00
ExampleA == <<18, 52, 171, 205>>
ExampleB == <<18, 52, 255, 0>>

HexLenInputs == Ids \cup {ExampleA, ExampleB}

InitHexLen ==
    /\ pc = "start"
    /\ lhs \in HexLenInputs
    /\ rhs \in HexLenInputs
    /\ ret = None
    /\ entries = Tree_default
    /\ present = {}
    /\ last = NoCall
    /\ repo = NoRepo

CommonHexLen ==
    /\ pc = "start"
    /\ ret' = Some(common_hex_len(lhs, rhs))
    /\ pc' = "done"
    /\ UNCHANGED <<lhs, rhs, entries, present, last, repo>>

NextHexLen == CommonHexLen

SpecHexLen == InitHexLen /\ [][NextHexLen]_vars

\* the number of leading positions on which two texts agree
CommonPrefixLen(s, t) ==
    CHOOSE k \in 0..Min(Len(s), Len(t)) :
        /\ \A i \in 1..k : s[i] = t[i]
        /\ k < Min(Len(s), Len(t)) => s[k + 1] # t[k + 1]

\* C7: common_hex_len(a, b) is the number of leading hexadecimal digits on
\* which a and b agree: 4 for 12 34 ab cd and 12 34 ff 00, 2 * len(a) when
\* a = b, 0 when the first digits differ, never above 2 * min(len(a), len(b)).
C7_CommonHexLen ==
    pc = "done" =>
        /\ ret[1] = CommonPrefixLen(HexEncode(lhs), HexEncode(rhs))
        /\ (lhs = ExampleA /\ rhs = ExampleB) => ret[1] = 4
        /\ lhs = rhs => ret[1] = 2 * Len(lhs)
        /\ (lhs # <<>> /\ rhs # <<>> /\ lhs[1] \div 16 # rhs[1] \div 16) => ret[1] = 0
        /\ ret[1] <= 2 * Min(Len(lhs), Len(rhs))

\* the example of the documentation
C7_Witness == pc = "done" /\ lhs = ExampleA /\ rhs = ExampleB /\ ret = Some(4)

\* an odd result: 12 and 1f agree on one digit only
C7_WitnessOdd == pc = "done" /\ lhs = <<18>> /\ rhs = <<31, 52>> /\ ret = Some(1)

(***************************************************************************)
(* ContentHash: the bytes a value feeds to the hasher.                      *)
(***************************************************************************)
RECURSIVE LeBytes(_, _)
\* the low `width` bytes of n, least significant first (two's complement)
LeBytes(n, width) ==
    IF width = 0 THEN <<>>
    ELSE <<n % 256>> \o LeBytes(n \div 256, width - 1)

Hash_i32(n) == LeBytes(n, 4)

Hash_i64(n) == LeBytes(n, 8)

\* a length is hashed as a u64
Hash_len(n) == LeBytes(n, 8)

RECURSIVE Concat(_)
Concat(seqs) == IF seqs = <<>> THEN <<>> ELSE Head(seqs) \o Concat(Tail(seqs))

\* Vec<u8>: the length, then the bytes
Hash_bytes(bytes) == Hash_len(Len(bytes)) \o bytes

\* an identifier is a struct of one Vec<u8> field
Hash_Id(id) == Hash_bytes(id)

\* Merge<TreeId>: the length of the list of terms, then each term
Hash_Merge(terms) ==
    Hash_len(Len(terms)) \o Concat([i \in 1..Len(terms) |-> Hash_Id(terms[i])])

(***************************************************************************)
(* Merge<T> and MergedTreeId                                                *)
(***************************************************************************)
\* a Merge is its odd-length list of terms; a resolved Merge has one term
Merge_resolved(value) == <<value>>

Legacy(tree_id) == [variant |-> "Legacy", tree_id |-> tree_id]

MergeId(tree_ids) == [variant |-> "Merge", tree_ids |-> tree_ids]

MergedTreeId_resolved(tree_id) == MergeId(Merge_resolved(tree_id))

MergedTreeId_to_merge_first_term(id) ==
    IF id.variant = "Legacy" THEN Merge_resolved(id.tree_id)
    ELSE Merge_resolved(id.tree_ids[1])

MergedTreeId_to_merge(id) ==
    IF id.variant = "Legacy" THEN Merge_resolved(id.tree_id) ELSE id.tree_ids

MergedTreeId_eq_derived(a, b) == a = b

MergedTreeId_eq(a, b) == MergedTreeId_to_merge(a) = MergedTreeId_to_merge(b)

\* the ASCII codes of b"0" and b"1"
TagLegacy == 48
TagMerge == 49

MergedTreeId_hash_untagged(id) ==
    IF id.variant = "Legacy" THEN Hash_Id(id.tree_id) ELSE Hash_Merge(id.tree_ids)

MergedTreeId_hash(id) ==
    IF id.variant = "Legacy" THEN <<TagLegacy>> \o Hash_Id(id.tree_id)
    ELSE <<TagMerge>> \o Hash_Merge(id.tree_ids)

TreeIds == SeqsUpTo(TreeIdByteVals, MaxTreeIdLen)

OddLengths == {n \in 1..MaxMergeTerms : n % 2 = 1}

Merges == UNION {SeqsOfLen(TreeIds, n) : n \in OddLengths}

MergedTreeIds ==
    {Legacy(t) : t \in TreeIds}
        \cup {MergedTreeId_resolved(t) : t \in TreeIds}
        \cup {MergeId(m) : m \in Merges}

NoMergedRet ==
    [merge_lhs |-> None, merge_rhs |-> None, eq |-> None,
     hash_lhs |-> None, hash_rhs |-> None]

InitMergedTreeId ==
    /\ pc = "start"
    /\ lhs \in MergedTreeIds
    /\ rhs \in MergedTreeIds
    /\ ret = NoMergedRet
    /\ entries = Tree_default
    /\ present = {}
    /\ last = NoCall
    /\ repo = NoRepo

MergedTreeIdToMerge ==
    /\ pc = "start"
    /\ ret' = [ret EXCEPT !.merge_lhs = Some(MergedTreeId_to_merge(lhs)),
                          !.merge_rhs = Some(MergedTreeId_to_merge(rhs))]
    /\ pc' = "expanded"
    /\ UNCHANGED <<lhs, rhs, entries, present, last, repo>>

MergedTreeIdEq ==
    /\ pc = "expanded"
    /\ ret' = [ret EXCEPT !.eq = Some(MergedTreeId_eq(lhs, rhs))]
    /\ pc' = "compared"
    /\ UNCHANGED <<lhs, rhs, entries, present, last, repo>>

MergedTreeIdHash ==
    /\ pc = "compared"
    /\ ret' = [ret EXCEPT !.hash_lhs = Some(MergedTreeId_hash(lhs)),
                          !.hash_rhs = Some(MergedTreeId_hash(rhs))]
    /\ pc' = "hashed"
    /\ UNCHANGED <<lhs, rhs, entries, present, last, repo>>

NextMergedTreeId == MergedTreeIdToMerge \/ MergedTreeIdEq \/ MergedTreeIdHash

SpecMergedTreeId == InitMergedTreeId /\ [][NextMergedTreeId]_vars

\* the list of terms an id stands for, written out
Terms(id) == IF id.variant = "Legacy" THEN <<id.tree_id>> ELSE id.tree_ids

\* C1: a == b exactly when a.to_merge() == b.to_merge(), to_merge() turning
\* Legacy(T) into the one-term merge of T and leaving a Merge as it is; so
\* Legacy(T) == resolved(T), and Legacy(T) != Legacy(U) and
\* resolved(T) != resolved(U) when T != U.
C1_EqIsMergeEq ==
    pc \in {"compared", "hashed"} =>
        /\ ret.merge_lhs = Some(Terms(lhs))
        /\ ret.merge_rhs = Some(Terms(rhs))
        /\ ret.eq[1] = (ret.merge_lhs = ret.merge_rhs)
        /\ (lhs.variant = "Legacy" /\ rhs = MergeId(<<lhs.tree_id>>)) => ret.eq[1]
        /\ (rhs.variant = "Legacy" /\ lhs = MergeId(<<rhs.tree_id>>)) => ret.eq[1]
        /\ (lhs.variant = "Legacy" /\ rhs.variant = "Legacy"
                /\ lhs.tree_id # rhs.tree_id) => ~ret.eq[1]
        /\ (lhs.variant = "Merge" /\ rhs.variant = "Merge"
                /\ lhs.tree_ids # rhs.tree_ids) => ~ret.eq[1]

\* Legacy(T) compared with resolved(T)
C1_Witness ==
    /\ pc = "compared"
    /\ lhs = Legacy(<<18>>)
    /\ rhs = MergedTreeId_resolved(<<18>>)
    /\ ret.eq = Some(TRUE)

\* C2: hashing feeds the variant tag before any payload byte, the character
\* 0 for Legacy and the character 1 for Merge; so Legacy(T) and resolved(T)
\* are equal and the bytes they feed differ, in the first byte already.
C2_TagFirst ==
    pc = "hashed" =>
        /\ lhs.variant = "Legacy" => ret.hash_lhs[1][1] = 48
        /\ lhs.variant = "Merge" => ret.hash_lhs[1][1] = 49
        /\ rhs.variant = "Legacy" => ret.hash_rhs[1][1] = 48
        /\ rhs.variant = "Merge" => ret.hash_rhs[1][1] = 49
        /\ (lhs.variant = "Legacy" /\ rhs = MergeId(<<lhs.tree_id>>)) =>
            /\ ret.eq[1]
            /\ ret.hash_lhs[1][1] # ret.hash_rhs[1][1]
            /\ ret.hash_lhs # ret.hash_rhs

\* Legacy(T) and resolved(T) hashed, for the empty T
C2_Witness ==
    /\ pc = "hashed"
    /\ lhs = Legacy(<<>>)
    /\ rhs = MergedTreeId_resolved(<<>>)
    /\ ret.eq = Some(TRUE)
    /\ ret.hash_lhs[1][1] = 48
    /\ ret.hash_rhs[1][1] = 49

\* C3, as claimed: if a == b then a and b feed the same bytes to the hasher.
C3_EqualThenSameHash ==
    pc = "hashed" => (ret.eq[1] => ret.hash_lhs = ret.hash_rhs)

\* C3, amended: equality goes through to_merge() and hashing reads the stored
\* variant; if a == b then a and b feed the same bytes exactly when they are
\* the same variant (Legacy(T) and resolved(T) are equal and feed different
\* bytes).
C3_EqualThenSameHashIffSameVariant ==
    pc = "hashed" =>
        (ret.eq[1] => ((ret.hash_lhs = ret.hash_rhs) <=> (lhs.variant = rhs.variant)))

\* Legacy(T) and resolved(T) hashed: equal, of two variants, different bytes
C3_Witness ==
    /\ pc = "hashed"
    /\ lhs = Legacy(<<171>>)
    /\ rhs = MergedTreeId_resolved(<<171>>)
    /\ ret.eq = Some(TRUE)
    /\ ret.hash_lhs # ret.hash_rhs

\* two equal three-term merges hashed: equal, of one variant, the same bytes
C3_WitnessSameVariant ==
    /\ pc = "hashed"
    /\ lhs.variant = "Merge"
    /\ Len(lhs.tree_ids) = 3
    /\ ret.eq = Some(TRUE)
    /\ ret.hash_lhs = ret.hash_rhs

(***************************************************************************)
(* MillisSinceEpoch and Timestamp                                           *)
(***************************************************************************)
MillisSinceEpoch(ms) == ms

Timestamp(timestamp, tz_offset) == [timestamp |-> timestamp, tz_offset |-> tz_offset]

IntCmp(x, y) == IF x < y THEN "Less" ELSE IF x > y THEN "Greater" ELSE "Equal"

Timestamp_cmp_instant_only(a, b) == IntCmp(a.timestamp, b.timestamp)

\* derive(PartialOrd, Ord): the fields in the order they are declared
Timestamp_cmp(a, b) ==
    IF IntCmp(a.timestamp, b.timestamp) # "Equal"
    THEN IntCmp(a.timestamp, b.timestamp)
    ELSE IntCmp(a.tz_offset, b.tz_offset)

Timestamp_lt(a, b) == Timestamp_cmp(a, b) = "Less"

\* derive(PartialEq, Eq): every field
Timestamp_eq(a, b) == a.timestamp = b.timestamp /\ a.tz_offset = b.tz_offset

\* content_hash!: every field, in the order they are declared
Timestamp_hash(t) == Hash_i64(t.timestamp) \o Hash_i32(t.tz_offset)

MillisVals == {-1, 0, 1, 1000, 86400000}
TzOffsetVals == {-480, -60, 0, 60, 330}

Timestamps == {Timestamp(MillisSinceEpoch(ms), tz) : ms \in MillisVals, tz \in TzOffsetVals}

NoTimestampRet ==
    [cmp |-> None, lt |-> None, gt |-> None, eq |-> None,
     hash_lhs |-> None, hash_rhs |-> None]

InitTimestamp ==
    /\ pc = "start"
    /\ lhs \in Timestamps
    /\ rhs \in Timestamps
    /\ ret = NoTimestampRet
    /\ entries = Tree_default
    /\ present = {}
    /\ last = NoCall
    /\ repo = NoRepo

TimestampCmp ==
    /\ pc = "start"
    /\ ret' = [ret EXCEPT !.cmp = Some(Timestamp_cmp(lhs, rhs)),
                          !.lt = Some(Timestamp_lt(lhs, rhs)),
                          !.gt = Some(Timestamp_lt(rhs, lhs)),
                          !.eq = Some(Timestamp_eq(lhs, rhs))]
    /\ pc' = "compared"
    /\ UNCHANGED <<lhs, rhs, entries, present, last, repo>>

TimestampHash ==
    /\ pc = "compared"
    /\ ret' = [ret EXCEPT !.hash_lhs = Some(Timestamp_hash(lhs)),
                          !.hash_rhs = Some(Timestamp_hash(rhs))]
    /\ pc' = "hashed"
    /\ UNCHANGED <<lhs, rhs, entries, present, last, repo>>

NextTimestamp == TimestampCmp \/ TimestampHash

SpecTimestamp == InitTimestamp /\ [][NextTimestamp]_vars

SameInstantOtherOffset == lhs.timestamp = rhs.timestamp /\ lhs.tz_offset # rhs.tz_offset

\* C10, as claimed: two Timestamps of the same milliseconds and different
\* tz_offset compare as the same instant (neither is less than the other)
\* and feed the same bytes to the hasher.
C10_OffsetIgnored ==
    (pc = "hashed" /\ SameInstantOtherOffset) =>
        /\ ret.cmp = Some("Equal")
        /\ ret.lt = Some(FALSE)
        /\ ret.gt = Some(FALSE)
        /\ ret.hash_lhs = ret.hash_rhs

\* C10, amended: tz_offset takes part in ordering and hashing, after the
\* milliseconds. Two Timestamps of different milliseconds are ordered by the
\* milliseconds alone; two of the same milliseconds and different tz_offset
\* are unequal, the one of the smaller tz_offset is less, and they feed
\* different bytes to the hasher (the same first 8, different last 4).
C10_OffsetBreaksTies ==
    pc = "hashed" =>
        /\ lhs.timestamp < rhs.timestamp => ret.cmp = Some("Less")
        /\ lhs.timestamp > rhs.timestamp => ret.cmp = Some("Greater")
        /\ SameInstantOtherOffset =>
            /\ ret.eq = Some(FALSE)
            /\ ret.cmp = Some(IF lhs.tz_offset < rhs.tz_offset THEN "Less" ELSE "Greater")
            /\ ret.lt = Some(lhs.tz_offset < rhs.tz_offset)
            /\ ret.gt = Some(rhs.tz_offset < lhs.tz_offset)
            /\ ret.hash_lhs # ret.hash_rhs
            /\ SubSeq(ret.hash_lhs[1], 1, 8) = SubSeq(ret.hash_rhs[1], 1, 8)
            /\ SubSeq(ret.hash_lhs[1], 9, 12) # SubSeq(ret.hash_rhs[1], 9, 12)
        /\ ret.cmp = Some("Equal") <=> lhs = rhs

\* the same instant at offsets -60 and 330
C10_Witness ==
    /\ pc = "hashed"
    /\ lhs = Timestamp(1000, -60)
    /\ rhs = Timestamp(1000, 330)
    /\ ret.cmp = Some("Less")

(***************************************************************************)
(* Signature, Commit and make_root_commit                                   *)
(***************************************************************************)
Signature(name, email, timestamp) ==
    [name |-> name, email |-> email, timestamp |-> timestamp]

make_root_commit_empty_id(root_change_id, empty_tree_id) ==
    LET timestamp == Timestamp(MillisSinceEpoch(0), 0)
        signature == Signature(<<>>, <<>>, timestamp)
    IN  [parents |-> <<>>,
         predecessors |-> <<>>,
         root_tree |-> Legacy(<<>>),
         change_id |-> root_change_id,
         description |-> <<>>,
         author |-> signature,
         committer |-> signature,
         secure_sig |-> None]

make_root_commit(root_change_id, empty_tree_id) ==
    LET timestamp == Timestamp(MillisSinceEpoch(0), 0)
        signature == Signature(<<>>, <<>>, timestamp)
    IN  [parents |-> <<>>,
         predecessors |-> <<>>,
         root_tree |-> Legacy(empty_tree_id),
         change_id |-> root_change_id,
         description |-> <<>>,
         author |-> signature,
         committer |-> signature,
         secure_sig |-> None]

InitRootCommit ==
    /\ pc = "start"
    /\ lhs \in Ids
    /\ rhs \in Ids
    /\ ret = None
    /\ entries = Tree_default
    /\ present = {}
    /\ last = NoCall
    /\ repo = NoRepo

MakeRootCommit ==
    /\ pc = "start"
    /\ ret' = Some(make_root_commit(lhs, rhs))
    /\ pc' = "done"
    /\ UNCHANGED <<lhs, rhs, entries, present, last, repo>>

NextRootCommit == MakeRootCommit

SpecRootCommit == InitRootCommit /\ [][NextRootCommit]_vars

EpochSignature(sig) ==
    /\ sig.name = <<>>
    /\ sig.email = <<>>
    /\ sig.timestamp.timestamp = 0
    /\ sig.timestamp.tz_offset = 0

\* C8: make_root_commit(c, e) has no parents, no predecessors, change_id c,
\* an empty description, no secure signature, author and committer of empty
\* name and email at 0 ms and offset 0, and a root tree that is equal, as a
\* MergedTreeId, to the resolved id of e.
C8_RootCommit ==
    pc = "done" =>
        LET commit == ret[1]
        IN  /\ commit.parents = <<>>
            /\ commit.predecessors = <<>>
            /\ commit.change_id = lhs
            /\ commit.description = <<>>
            /\ commit.secure_sig = None
            /\ EpochSignature(commit.author)
            /\ EpochSignature(commit.committer)
            /\ MergedTreeId_eq(commit.root_tree, MergedTreeId_resolved(rhs))
            /\ MergedTreeId_to_merge(commit.root_tree) = <<rhs>>

\* a root commit made of a change id and an empty tree id that differ
C8_Witness ==
    /\ pc = "done"
    /\ lhs = <<0, 0>>
    /\ rhs = <<171, 205>>
    /\ ret[1].root_tree = Legacy(<<171, 205>>)

(***************************************************************************)
(* ContentHash for TreeValue                                                *)
(***************************************************************************)
\* a bool is hashed as one byte, 1 for true and 0 for false
Hash_bool(b) == <<IF b THEN 1 ELSE 0>>

\* u32::to_le_bytes
U32LeBytes(n) == LeBytes(n, 4)

TreeValue_hash_no_discriminant(v) ==
    IF v.kind = "File" THEN Hash_Id(v.id) \o Hash_bool(v.executable)
    ELSE Hash_Id(v.id)

TreeValue_hash(v) ==
    CASE v.kind = "File" -> U32LeBytes(0) \o Hash_Id(v.id) \o Hash_bool(v.executable)
      [] v.kind = "Symlink" -> U32LeBytes(1) \o Hash_Id(v.id)
      [] v.kind = "Tree" -> U32LeBytes(2) \o Hash_Id(v.id)
      [] v.kind = "GitSubmodule" -> U32LeBytes(3) \o Hash_Id(v.id)
      [] v.kind = "Conflict" -> U32LeBytes(4) \o Hash_Id(v.id)

\* the TreeValues whose id has the raw bytes b
TreeValuesOf(b) ==
    {File(b, FALSE), File(b, TRUE), Symlink(b), TreeV(b), GitSubmodule(b), Conflict(b)}

InitTreeValue ==
    /\ pc = "start"
    /\ lhs \in Ids
    /\ rhs = <<>>
    /\ ret = {}
    /\ entries = Tree_default
    /\ present = {}
    /\ last = NoCall
    /\ repo = NoRepo

\* one more of the values of the bytes lhs is hashed
TreeValueHash ==
    /\ pc = "start"
    /\ \E v \in TreeValuesOf(lhs) :
        /\ \A r \in ret : r.value # v
        /\ ret' = ret \cup {[value |-> v, hash |-> TreeValue_hash(v)]}
    /\ UNCHANGED <<pc, lhs, rhs, entries, present, last, repo>>

NextTreeValue == TreeValueHash

SpecTreeValue == InitTreeValue /\ [][NextTreeValue]_vars

\* the discriminant the claim gives each variant
C14_Discriminant(kind) ==
    CASE kind = "File" -> <<0, 0, 0, 0>>
      [] kind = "Symlink" -> <<1, 0, 0, 0>>
      [] kind = "Tree" -> <<2, 0, 0, 0>>
      [] kind = "GitSubmodule" -> <<3, 0, 0, 0>>
      [] kind = "Conflict" -> <<4, 0, 0, 0>>

\* C14: a TreeValue feeds a 4-byte little-endian discriminant (File 0,
\* Symlink 1, Tree 2, GitSubmodule 3, Conflict 4) before its payload, so the
\* TreeValues built of ids of the same raw bytes feed pairwise different
\* bytes, File{executable: true} and File{executable: false} included.
C14_TreeValueDiscriminant ==
    /\ \A r \in ret : SubSeq(r.hash, 1, 4) = C14_Discriminant(r.value.kind)
    /\ \A r1 \in ret : \A r2 \in ret : r1.value # r2.value => r1.hash # r2.hash

\* the six values of the bytes ab cd, all hashed
C14_Witness ==
    /\ lhs = <<171, 205>>
    /\ Cardinality(ret) = 6
    /\ \E r \in ret : r.value = Symlink(<<171, 205>>) /\ r.hash[1] = 1
    /\ \E r \in ret : r.value = File(<<171, 205>>, TRUE)

(***************************************************************************)
(* The commit graph and the revsets `jj next` builds.  Commits are numbered *)
(* in the order they were written, so parents have smaller numbers; the     *)
(* root commit is the one without parents.                                  *)
(***************************************************************************)
Commits(r) == DOMAIN r.parents

Children(r, S) == {c \in Commits(r) : r.parents[c] \cap S # {}}

\* RevsetExpression::commit
Revset_commit(id) == {id}

RECURSIVE Revset_descendants_at(_, _, _)
\* the commits exactly `generation` child steps after a commit of S
Revset_descendants_at(r, S, generation) ==
    IF generation = 0 THEN S \cap Commits(r)
    ELSE Revset_descendants_at(r, Children(r, S), generation - 1)

RECURSIVE Revset_descendants(_, _)
\* the commits of S and everything after them
Revset_descendants(r, S) ==
    LET more == S \cup Children(r, S)
    IN  IF more = S THEN S \cap Commits(r) ELSE Revset_descendants(r, more)

Revset_minus(A, B) == A \ B

RECURSIVE Revset_iter(_)
\* a revset iterates from the newest commit to the oldest
Revset_iter(S) ==
    IF S = {} THEN <<>>
    ELSE LET newest == CHOOSE c \in S : \A d \in S : d <= c
         IN  <<newest>> \o Revset_iter(S \ {newest})

\* Iterator::take
Take(seq, n) == SubSeq(seq, 1, Min(n, Len(seq)))

(***************************************************************************)
(* cmd_next                                                                 *)
(***************************************************************************)
NextArgs(amount, edit) == [amount |-> amount, edit |-> edit]

Ok == [err |-> "none", message |-> <<>>]

user_error(message) == [err |-> "user_error", message |-> message]

NoWorkingCopyMessage == <<"This command requires a working copy">>

\* the message quotes jj next in backquotes, written here as apostrophes
MergeCommitMessage == <<"Cannot run 'jj next' on a merge commit">>

AmbiguousMessage == <<"Ambiguous target commit">>

RootCommitMessage == <<"Cannot rewrite the root commit">>

NoDescendantMessage(amount) ==
    <<"No descendant found ", amount, " commit", IF amount > 1 THEN "s" ELSE "", " forward">>

start_id_first_parent(edit, current_wc_id, parent_ids) ==
    IF edit THEN Some(current_wc_id)
    ELSE IF parent_ids # {} THEN Some(CHOOSE p \in parent_ids : \A q \in parent_ids : p <= q)
    ELSE None

\* the commit the search starts at; None when the match on parent_ids fails
start_id(edit, current_wc_id, parent_ids) ==
    IF edit THEN Some(current_wc_id)
    ELSE IF Cardinality(parent_ids) = 1 THEN Some(CHOOSE p \in parent_ids : TRUE)
    ELSE None

target_expression_one_further(r, edit, start, current_wc_id, amount) ==
    LET descendant_expression == Revset_descendants_at(r, Revset_commit(start), amount + 1)
    IN  IF edit THEN descendant_expression
        ELSE Revset_minus(descendant_expression,
                          Revset_descendants(r, Revset_commit(current_wc_id)))

target_expression_keeps_wc(r, edit, start, current_wc_id, amount) ==
    Revset_descendants_at(r, Revset_commit(start), amount)

target_expression(r, edit, start, current_wc_id, amount) ==
    LET descendant_expression == Revset_descendants_at(r, Revset_commit(start), amount)
    IN  IF edit THEN descendant_expression
        ELSE Revset_minus(descendant_expression,
                          Revset_descendants(r, Revset_commit(current_wc_id)))

match_targets_takes_first(targets, amount) ==
    IF Len(targets) >= 1 THEN Ok ELSE user_error(NoDescendantMessage(amount))

\* the match on targets.as_slice(): Ok when there is one target
match_targets(targets, amount) ==
    IF Len(targets) = 1 THEN Ok
    ELSE IF Len(targets) = 0 THEN user_error(NoDescendantMessage(amount))
    ELSE user_error(AmbiguousMessage)

\* check_rewritable: the root commit cannot be rewritten
check_rewritable(r, target) ==
    IF r.parents[target] = {} THEN user_error(RootCommitMessage) ELSE Ok

\* tx.edit: the working copy becomes the target
tx_edit(r, target) == [r EXCEPT !.wc = Some(target)]

\* tx.check_out: a new commit on top of the target becomes the working copy;
\* the commit left behind is abandoned or kept
tx_check_out(r, target, abandon) ==
    LET new == Cardinality(Commits(r)) + 1
        kept == IF abandon THEN Commits(r) \ {r.wc[1]} ELSE Commits(r)
    IN  [parents |-> [c \in kept \cup {new} |-> IF c = new THEN {target} ELSE r.parents[c]],
         wc |-> Some(new)]

NonEmptySubsets(S) == SUBSET S \ {{}}

RECURSIVE Graphs(_)
\* the graphs of n commits: commit 1 is the root, every other commit has
\* parents among the commits before it
Graphs(n) ==
    IF n = 1 THEN {[c \in {1} |-> {}]}
    ELSE {[c \in 1..n |-> IF c = n THEN ps ELSE g[c]] :
              g \in Graphs(n - 1), ps \in NonEmptySubsets(1..(n - 1))}

Repos ==
    UNION {{[parents |-> g, wc |-> w] :
                g \in Graphs(n), w \in {None} \cup {Some(c) : c \in 1..n}} :
           n \in 1..MaxGraphCommits}

NoNextRet ==
    [current_wc_id |-> None, start_id |-> None, targets |-> None, target |-> None,
     result |-> None, revsets_evaluated |-> 0, tx_started |-> 0, tx_finished |-> 0,
     tx_description |-> None, moved_by |-> None]

\* rhs keeps the repository as the command found it
InitNext ==
    /\ pc = "start"
    /\ lhs \in {NextArgs(amount, edit) : amount \in 0..MaxAmount, edit \in BOOLEAN}
    /\ repo \in Repos
    /\ rhs = repo
    /\ ret = NoNextRet
    /\ entries = Tree_default
    /\ present = {}
    /\ last = NoCall

\* get_wc_commit_id() and get_commit()
CmdNextWorkingCopy ==
    /\ pc = "start"
    /\ IF repo.wc = None
       THEN /\ ret' = [ret EXCEPT !.result = Some(user_error(NoWorkingCopyMessage))]
            /\ pc' = "done"
       ELSE /\ ret' = [ret EXCEPT !.current_wc_id = repo.wc]
            /\ pc' = "have_wc"
    /\ UNCHANGED <<lhs, rhs, entries, present, last, repo>>

CmdNextStartId ==
    /\ pc = "have_wc"
    /\ LET start == start_id(lhs.edit, ret.current_wc_id[1],
                             repo.parents[ret.current_wc_id[1]])
       IN  IF start = None
           THEN /\ ret' = [ret EXCEPT !.result = Some(user_error(MergeCommitMessage))]
                /\ pc' = "done"
           ELSE /\ ret' = [ret EXCEPT !.start_id = start]
                /\ pc' = "have_start"
    /\ UNCHANGED <<lhs, rhs, entries, present, last, repo>>

\* the target expression is resolved and evaluated, and two commits at most
\* are taken
CmdNextEvaluate ==
    /\ pc = "have_start"
    /\ ret' = [ret EXCEPT
                 !.targets = Some(Take(Revset_iter(
                     target_expression(repo, lhs.edit, ret.start_id[1],
                                       ret.current_wc_id[1], lhs.amount)), 2)),
                 !.revsets_evaluated = @ + 1]
    /\ pc' = "have_targets"
    /\ UNCHANGED <<lhs, rhs, entries, present, last, repo>>

CmdNextMatchTargets ==
    /\ pc = "have_targets"
    /\ LET matched == match_targets(ret.targets[1], lhs.amount)
       IN  IF matched = Ok
           THEN /\ ret' = [ret EXCEPT !.target = Some(ret.targets[1][1])]
                /\ pc' = "have_target"
           ELSE /\ ret' = [ret EXCEPT !.result = Some(matched)]
                /\ pc' = "done"
    /\ UNCHANGED <<lhs, rhs, entries, present, last, repo>>

CmdNextEdit ==
    /\ pc = "have_target"
    /\ lhs.edit
    /\ LET target == ret.target[1]
           rewritable == check_rewritable(repo, target)
       IN  IF rewritable # Ok
           THEN /\ ret' = [ret EXCEPT !.result = Some(rewritable)]
                /\ repo' = repo
           ELSE /\ ret' = [ret EXCEPT
                             !.tx_started = @ + 1,
                             !.tx_description =
                                 Some(<<"next", ret.current_wc_id[1], "editing", target>>),
                             !.moved_by = Some("edit"),
                             !.tx_finished = @ + 1,
                             !.result = Some(Ok)]
                /\ repo' = tx_edit(repo, target)
    /\ pc' = "done"
    /\ UNCHANGED <<lhs, rhs, entries, present, last>>

CmdNextCheckOut ==
    /\ pc = "have_target"
    /\ ~lhs.edit
    /\ \E abandon \in BOOLEAN :
        /\ abandon => Children(repo, {ret.current_wc_id[1]}) = {}
        /\ repo' = tx_check_out(repo, ret.target[1], abandon)
    /\ ret' = [ret EXCEPT
                 !.tx_started = @ + 1,
                 !.tx_description = Some(<<"next", ret.current_wc_id[1], ret.target[1]>>),
                 !.moved_by = Some("check_out"),
                 !.tx_finished = @ + 1,
                 !.result = Some(Ok)]
    /\ pc' = "done"
    /\ UNCHANGED <<lhs, rhs, entries, present, last>>

NextNext ==
    \/ CmdNextWorkingCopy
    \/ CmdNextStartId
    \/ CmdNextEvaluate
    \/ CmdNextMatchTargets
    \/ CmdNextEdit
    \/ CmdNextCheckOut

SpecNext == InitNext /\ [][NextNext]_vars

(***************************************************************************)
(* Claims about cmd_next.  The graph notions below walk the parents of the  *)
(* graph the command found (rhs), not the revsets the command evaluates.    *)
(***************************************************************************)
RECURSIVE AncestorsAt(_, _, _)
\* the commits exactly n parent steps before a commit of S
AncestorsAt(r, S, n) ==
    IF n = 0 THEN S
    ELSE AncestorsAt(r, UNION {r.parents[c] : c \in S}, n - 1)

\* the commits exactly n child generations after start
GenerationsAfter(r, start, n) == {c \in Commits(r) : start \in AncestorsAt(r, {c}, n)}

\* c is a, or a commit after a
IsDescendant(r, a, c) ==
    \E n \in 0..Cardinality(Commits(r)) : a \in AncestorsAt(r, {c}, n)

Succeeded == pc = "done" /\ ret.result = Some(Ok)

Failed == pc = "done" /\ ret.result # Some(Ok)

\* the working-copy commit the command found, and its only parent
FoundWc == rhs.wc[1]
SoleParent == CHOOSE p \in rhs.parents[FoundWc] : TRUE

\* what a successful command did: one transaction, and the move of its mode
C11_Moved ==
    /\ ret.tx_started = 1
    /\ ret.tx_finished = 1
    /\ lhs.edit =>
        /\ ret.moved_by = Some("edit")
        /\ repo.wc = ret.target
        /\ repo.parents = rhs.parents
    /\ ~lhs.edit =>
        /\ ret.moved_by = Some("check_out")
        /\ repo.wc # None
        /\ repo.wc[1] \notin Commits(rhs)
        /\ repo.parents[repo.wc[1]] = {ret.target[1]}
        /\ Cardinality(rhs.parents[FoundWc]) = 1

\* C11, as claimed: when cmd_next succeeds, with --edit the working copy is
\* moved onto the target by tx.edit and the target is the unique commit
\* exactly `amount` generations after the working-copy commit; without
\* --edit a new working-copy commit is checked out on top of the target and
\* the target is the unique commit exactly `amount` generations after the
\* sole parent of the working copy; one transaction is started and finished.
C11_TargetUniqueAfterStart ==
    Succeeded =>
        /\ C11_Moved
        /\ lhs.edit => GenerationsAfter(rhs, FoundWc, lhs.amount) = {ret.target[1]}
        /\ ~lhs.edit => GenerationsAfter(rhs, SoleParent, lhs.amount) = {ret.target[1]}

\* C11, amended: as claimed with --edit; without --edit the target is the
\* unique commit exactly `amount` generations after the sole parent that is
\* neither the working-copy commit nor a descendant of it (other commits
\* `amount` generations after the parent, the working copy among them, may
\* exist).
C11_TargetUniqueOffWcLine ==
    Succeeded =>
        /\ C11_Moved
        /\ lhs.edit => GenerationsAfter(rhs, FoundWc, lhs.amount) = {ret.target[1]}
        /\ ~lhs.edit =>
            {c \in GenerationsAfter(rhs, SoleParent, lhs.amount) :
                 ~IsDescendant(rhs, FoundWc, c)} = {ret.target[1]}

\* the example of the documentation: the parent has the working copy and
\* one other child, and jj next checks out a new commit on that child
C11_Witness ==
    /\ Succeeded
    /\ ~lhs.edit
    /\ lhs.amount = 1
    /\ Cardinality(GenerationsAfter(rhs, SoleParent, 1)) = 2
    /\ ret.target[1] # FoundWc
    /\ repo.parents[repo.wc[1]] = {ret.target[1]}

\* --edit moved the working copy two commits forward
C11_WitnessEdit ==
    /\ Succeeded
    /\ lhs.edit
    /\ lhs.amount = 2
    /\ repo.wc = ret.target
    /\ repo.wc # rhs.wc

\* the commits the command may move to, from the graph it found
Candidates ==
    IF lhs.edit THEN GenerationsAfter(rhs, FoundWc, lhs.amount)
    ELSE {c \in GenerationsAfter(rhs, SoleParent, lhs.amount) : ~IsDescendant(rhs, FoundWc, c)}

\* C12: cmd_next takes two candidate targets at most and goes on only when
\* there is exactly one: with none it fails with "No descendant found
\* {amount} commit(s) forward", with two or more with "Ambiguous target
\* commit"; in both cases no transaction is started and the working copy
\* and the graph are as they were.
C12_OneTargetOrError ==
    ret.targets # None =>
        /\ Len(ret.targets[1]) <= 2
        /\ Len(ret.targets[1]) = Min(2, Cardinality(Candidates))
        /\ pc \in {"have_target", "done"} =>
            /\ Cardinality(Candidates) = 0 =>
                /\ pc = "done"
                /\ ret.result = Some([err |-> "user_error",
                                      message |-> <<"No descendant found ", lhs.amount,
                                                    " commit",
                                                    IF lhs.amount > 1 THEN "s" ELSE "",
                                                    " forward">>])
                /\ ret.tx_started = 0
                /\ repo = rhs
            /\ Cardinality(Candidates) >= 2 =>
                /\ pc = "done"
                /\ ret.result = Some([err |-> "user_error",
                                      message |-> <<"Ambiguous target commit">>])
                /\ ret.tx_started = 0
                /\ repo = rhs
            /\ Cardinality(Candidates) = 1 =>
                /\ ret.target # None
                /\ ret.target[1] \in Candidates

\* a branch point: three commits one generation after the working copy
C12_Witness ==
    /\ Failed
    /\ lhs.edit
    /\ ret.targets # None
    /\ lhs.amount = 1
    /\ Cardinality(Candidates) = 3
    /\ Len(ret.targets[1]) = 2
    /\ ret.result = Some(user_error(AmbiguousMessage))

\* nothing two commits forward
C12_WitnessNone ==
    /\ Failed
    /\ lhs.amount = 2
    /\ ret.targets = Some(<<>>)
    /\ ret.result = Some(user_error(NoDescendantMessage(2)))

\* C13: without --edit the working-copy commit must have exactly one
\* parent: with two or more, or none, the command fails with "Cannot run
\* jj next on a merge commit" before any revset is evaluated or transaction
\* started; with --edit the parents are not counted; without a working copy
\* the command fails with "This command requires a working copy" in both
\* modes.
C13_MergeCommitRefused ==
    pc = "done" =>
        /\ rhs.wc = None =>
            /\ ret.result = Some([err |-> "user_error",
                                  message |-> <<"This command requires a working copy">>])
            /\ ret.revsets_evaluated = 0
            /\ ret.tx_started = 0
            /\ repo = rhs
        /\ (rhs.wc # None /\ ~lhs.edit /\ Cardinality(rhs.parents[FoundWc]) # 1) =>
            /\ ret.result = Some([err |-> "user_error",
                                  message |-> <<"Cannot run 'jj next' on a merge commit">>])
            /\ ret.revsets_evaluated = 0
            /\ ret.tx_started = 0
            /\ repo = rhs
        /\ (rhs.wc # None /\ (lhs.edit \/ Cardinality(rhs.parents[FoundWc]) = 1)) =>
            /\ ret.result # Some(user_error(MergeCommitMessage))
            /\ ret.result # Some(user_error(NoWorkingCopyMessage))
            /\ ret.revsets_evaluated = 1

\* --edit succeeded from a working-copy commit that is a merge commit
C13_Witness ==
    /\ Succeeded
    /\ lhs.edit
    /\ lhs.amount = 1
    /\ Cardinality(rhs.parents[FoundWc]) = 2
    /\ repo.wc = ret.target

\* without --edit a merge commit is refused
C13_WitnessRefused ==
    /\ Failed
    /\ ~lhs.edit
    /\ rhs.wc # None
    /\ Cardinality(rhs.parents[FoundWc]) = 2
    /\ ret.result = Some(user_error(MergeCommitMessage))

\* C15: without --edit the target is never the working-copy commit nor a
\* descendant of it, for every graph and amount; so when every commit
\* `amount` generations after the parent is on the line of the working
\* copy, the command fails with "No descendant found" and does not move.
C15_TargetOffWcLine ==
    (~lhs.edit /\ ret.targets # None) =>
        /\ \A i \in 1..Len(ret.targets[1]) :
               /\ ret.targets[1][i] # FoundWc
               /\ ~IsDescendant(rhs, FoundWc, ret.targets[1][i])
        /\ ret.target # None =>
               /\ ret.target[1] # FoundWc
               /\ ~IsDescendant(rhs, FoundWc, ret.target[1])
        /\ (pc = "done"
                /\ \A c \in GenerationsAfter(rhs, SoleParent, lhs.amount) :
                       IsDescendant(rhs, FoundWc, c)) =>
               /\ ret.result = Some(user_error(NoDescendantMessage(lhs.amount)))
               /\ repo = rhs

\* the only commit two generations after the parent is the child of the
\* working copy, and the command fails
C15_Witness ==
    /\ Failed
    /\ ~lhs.edit
    /\ ret.targets # None
    /\ lhs.amount = 2
    /\ Cardinality(GenerationsAfter(rhs, SoleParent, 2)) = 1
    /\ \A c \in GenerationsAfter(rhs, SoleParent, 2) : IsDescendant(rhs, FoundWc, c)
    /\ ret.result = Some(user_error(NoDescendantMessage(2)))

====
